---------------------------- MODULE Spec2Model ----------------------------
(***************************************************************************)
(* A model of imagecraft.ImageGenerator (src/imagecraft/imagecraft.py):    *)
(* the colour resolver _rgbcolor, the construction-time mapping of         *)
(* colours to layers, and render() with its output writer.                 *)
(*                                                                         *)
(* Python strings are sequences of one-character strings, so that find,    *)
(* replace, split, strip, int(.., base=16) and float() are computed, not   *)
(* assumed.  An image is one pixel: every PIL operation used by render()   *)
(* works on each pixel independently.                                      *)
(***************************************************************************)
EXTENDS Integers, Sequences, FiniteSets, TLC

VARIABLES
    colorval,           \* the argument handed to _rgbcolor
    form,               \* how colorval was built (its grammar and numbers)
    result,             \* what _rgbcolor returned or raised; Pending before
    layers,             \* class attribute `layers`
    output_filename,    \* class attribute, "None" when unset
    image_format,       \* class attribute, "None" when unset
    gen,                \* "none" | "alive" | "failed": the instance
    ctor_error,         \* the exception __init__ raised, "none" otherwise
    color_dict,         \* the colour map the constructor was called with
    colors_for_layers,  \* self.colors_for_layers
    source_path,        \* self.source_path
    output_path,        \* self.output_path
    pc,                 \* "idle" | "loop": position inside render()
    layeridx,           \* loop index of render()
    baselayer,          \* local `baselayer` of render(): None or an image
    warnings,           \* number of calls of warn()
    log,                \* the I/O events of the render in progress / last
    error,              \* the exception the last render() raised, or "none"
    outfile,            \* the output file on disk: Absent or what was saved
    renders,            \* number of render() calls begun
    outcomes            \* per finished render(): its exception and its file

colorVars == <<colorval, form, result>>
classVars == <<layers, output_filename, image_format>>
selfVars  == <<gen, ctor_error, color_dict, colors_for_layers, source_path,
               output_path>>
rendVars  == <<pc, layeridx, baselayer, warnings, log, error, outfile,
               renders, outcomes>>
vars == <<colorVars, classVars, selfVars, rendVars>>

---------------------------------------------------------------------------
(* Bounds of the model *)

\* percentages 0..MaxPct are enumerated in one channel of rgb(p%,q%,r%)
MaxPct == 100
\* the class attribute `layers` holds at most MaxLayers entries
MaxLayers == 3
\* render() is called at most MaxRenders times on the instance
MaxRenders == 2

---------------------------------------------------------------------------
(* Python string primitives *)

None == "None"

UpperChars == <<"A","B","C","D","E","F","G","H","I","J","K","L","M",
                "N","O","P","Q","R","S","T","U","V","W","X","Y","Z">>
LowerChars == <<"a","b","c","d","e","f","g","h","i","j","k","l","m",
                "n","o","p","q","r","s","t","u","v","w","x","y","z">>
DigitChars == <<"0","1","2","3","4","5","6","7","8","9">>
Whitespace == {" ", "\t", "\n"}

IndexIn(c, chars) ==
    IF \E i \in DOMAIN chars : chars[i] = c
    THEN CHOOSE i \in DOMAIN chars : chars[i] = c
    ELSE 0

\* str.lower() of one character
LowerChar(c) ==
    IF IndexIn(c, UpperChars) > 0 THEN LowerChars[IndexIn(c, UpperChars)] ELSE c

\* str.lower()
Lower(s) == [i \in DOMAIN s |-> LowerChar(s[i])]

\* s[a:b] with 0-based, end-exclusive Python indices, 0 <= a <= b
Slice(s, a, b) ==
    LET hi == IF b > Len(s) THEN Len(s) ELSE b
    IN  IF a >= hi THEN <<>> ELSE SubSeq(s, a + 1, hi)

StartsWithAt(s, sub, i) ==
    /\ i + Len(sub) <= Len(s)
    /\ \A k \in 1..Len(sub) : s[i + k] = sub[k]

\* str.find(sub): 0-based index of the first occurrence, -1 when absent
Find(s, sub) ==
    LET hits == {i \in 0..Len(s) : StartsWithAt(s, sub, i)}
    IN  IF hits = {} THEN -1
        ELSE CHOOSE i \in hits : \A j \in hits : i <= j

\* str.replace(sub, ''): every non-overlapping occurrence, left to right
RECURSIVE Remove(_, _)
Remove(s, sub) ==
    IF s = <<>> THEN <<>>
    ELSE IF StartsWithAt(s, sub, 0)
         THEN Remove(Slice(s, Len(sub), Len(s)), sub)
         ELSE <<Head(s)>> \o Remove(Tail(s), sub)

\* str.split(sep) for a one-character separator: always at least one piece
RECURSIVE Split(_, _)
Split(s, sep) ==
    LET i == Find(s, <<sep>>)
    IN  IF i = -1 THEN <<s>>
        ELSE <<Slice(s, 0, i)>> \o Split(Slice(s, i + 1, Len(s)), sep)

RECURSIVE LStrip(_)
LStrip(s) ==
    IF s # <<>> /\ Head(s) \in Whitespace THEN LStrip(Tail(s)) ELSE s

RECURSIVE RStrip(_)
RStrip(s) ==
    IF s # <<>> /\ s[Len(s)] \in Whitespace
    THEN RStrip(SubSeq(s, 1, Len(s) - 1)) ELSE s

\* str.strip()
Strip(s) == RStrip(LStrip(s))

\* the value of one digit in the given base, -1 when it is no such digit
DigitVal(c, base) ==
    LET d == IndexIn(c, DigitChars)
        l == IndexIn(LowerChar(c), LowerChars)
        v == IF d > 0 THEN d - 1 ELSE IF l > 0 THEN l + 9 ELSE -1
    IN  IF v < base THEN v ELSE -1

RECURSIVE DigitsVal(_, _, _)
DigitsVal(s, base, acc) ==
    IF s = <<>> THEN acc
    ELSE DigitsVal(Tail(s), base, acc * base + DigitVal(Head(s), base))

AllDigits(s, base) ==
    /\ s # <<>>
    /\ \A i \in DOMAIN s : DigitVal(s[i], base) >= 0

\* the sign and the unsigned rest of a stripped numeral
SignOf(s) == IF s # <<>> /\ Head(s) = "-" THEN -1 ELSE 1
Unsigned(s) == IF s # <<>> /\ Head(s) \in {"+", "-"} THEN Tail(s) ELSE s

\* int(s, base=16): surrounding whitespace, a sign and a 0x prefix are
\* accepted; anything else than hex digits raises ValueError
Int16(s) ==
    LET t == Strip(s)
        u == Unsigned(t)
        w == IF Len(u) >= 2 /\ u[1] = "0" /\ u[2] \in {"x", "X"}
             THEN Slice(u, 2, Len(u)) ELSE u
    IN  IF AllDigits(w, 16)
        THEN [ok |-> TRUE, v |-> SignOf(t) * DigitsVal(w, 16, 0)]
        ELSE [ok |-> FALSE, v |-> 0]

\* float(s) on a decimal integer numeral with optional sign and surrounding
\* whitespace (the numerals the model feeds it); other text raises
\* ValueError.  The value is kept as the integer it denotes.
Float(s) ==
    LET t == Strip(s)
        u == Unsigned(t)
    IN  IF AllDigits(u, 10)
        THEN [ok |-> TRUE, v |-> SignOf(t) * DigitsVal(u, 10, 0)]
        ELSE [ok |-> FALSE, v |-> 0]

\* int(x) of a quotient num/den, den > 0: truncation toward zero
TruncDiv(num, den) ==
    IF num >= 0 THEN num \div den ELSE -((-num) \div den)

\* str(n) of a natural number
RECURSIVE Str(_)
Str(n) ==
    IF n < 10 THEN <<DigitChars[n + 1]>>
    ELSE Str(n \div 10) \o <<DigitChars[(n % 10) + 1]>>

---------------------------------------------------------------------------
(* The colour resolver *)

\* clevercss.consts.COLORS: a sample of the name -> hex table
COLORS ==
    [n \in {<<"r","e","d">>, <<"w","h","i","t","e">>, <<"n","a","v","y">>} |->
        CASE n = <<"r","e","d">> -> <<"#","f","f","0","0","0","0">>
          [] n = <<"w","h","i","t","e">> -> <<"#","f","f","f","f","f","f">>
          [] OTHER -> <<"#","0","0","0","0","8","0">>]

\* the call has not been made
Pending == [tag |-> "pending", exc |-> "none", elt |-> "none", val |-> <<>>]
\* outcomes of a call
Raise(exc) == [tag |-> "raise", exc |-> exc, elt |-> "none", val |-> <<>>]
\* a tuple of numbers
Tuple(t)   == [tag |-> "tuple", exc |-> "none", elt |-> "int", val |-> t]
\* a tuple of bound methods str.strip, each kept by the string it is bound to
Methods(t) == [tag |-> "tuple", exc |-> "none", elt |-> "method", val |-> t]

\* the tuple of three int(.., base=16) calls
HexTuple(a, b, c) ==
    LET x == Int16(a)
        y == Int16(b)
        z == Int16(c)
    IN  IF x.ok /\ y.ok /\ z.ok THEN Tuple(<<x.v, y.v, z.v>>)
        ELSE Raise("ValueError")

\* a resolver that rounds the scaled percentage to the nearest integer
PctChannelRounded(x) == (x * 255 * 2 + 100) \div 200

\* int((x/100.0) * 255) for one percentage
PctChannel(x) == TruncDiv(x * 255, 100)

\* the percentage triplet: '%' removed, stripped, float(), scaled
PctTuple(stripped) ==
    LET triplet == Split(stripped, ",")
        floats  == [i \in DOMAIN triplet |->
                        Float(Strip(Remove(triplet[i], <<"%">>)))]
    IN  IF \A i \in DOMAIN floats : floats[i].ok
        THEN Tuple([i \in DOMAIN floats |-> PctChannel(floats[i].v)])
        ELSE Raise("ValueError")

\* the "binary" triplet: tuple([x.strip for x in triplet]), strip not called
IntTuple(stripped) == Methods(Split(stripped, ","))

\* a resolver whose shorthand digits are parsed without being doubled
HexBranchNoDup(cv) ==
    IF Len(cv) = 7
    THEN HexTuple(Slice(cv, 1, 3), Slice(cv, 3, 5), Slice(cv, 5, 7))
    ELSE IF Len(cv) = 4
    THEN HexTuple(Slice(cv, 1, 2), Slice(cv, 2, 3), Slice(cv, 3, 4))
    ELSE Tuple(<<0, 0, 0>>)

\* the branch taken when colorval starts with '#'
HexBranch(cv) ==
    IF Len(cv) = 7
    THEN HexTuple(Slice(cv, 1, 3), Slice(cv, 3, 5), Slice(cv, 5, 7))
    ELSE IF Len(cv) = 4
    THEN HexTuple(Slice(cv, 1, 2) \o Slice(cv, 1, 2),
                  Slice(cv, 2, 3) \o Slice(cv, 2, 3),
                  Slice(cv, 3, 4) \o Slice(cv, 3, 4))
    ELSE Tuple(<<0, 0, 0>>)

\* the branch taken when colorval.lower() starts with 'rgb'
RgbBranch(cv) ==
    LET stripped == Remove(Remove(Remove(cv, <<"r","g","b">>), <<"(">>),
                           <<")">>)
    IN  IF Find(stripped, <<"%">>) > -1
        THEN PctTuple(stripped)
        ELSE IntTuple(stripped)

\* the branch of a named colour: `named_colors` is no name of the module
NamedBranch(cv) == Raise("NameError")

\* ImageGenerator._rgbcolor (`x is 0` is `x = 0`: CPython shares small ints)
RgbColor(cv) ==
    IF Find(cv, <<"#">>) = 0 THEN HexBranch(cv)
    ELSE IF Find(Lower(cv), <<"r","g","b">>) = 0 THEN RgbBranch(cv)
    ELSE IF cv \in DOMAIN COLORS THEN NamedBranch(cv)
    ELSE Raise("ValueError")


---------------------------------------------------------------------------
(* Colour specifications handed to the resolver *)

HexChars == <<"0","1","2","3","4","5","6","7","8","9",
              "a","b","c","d","e","f">>

\* the hex digit of nibble n, in upper case when asked
HexChar(n, upper) ==
    IF upper /\ n >= 10 THEN UpperChars[n - 9] ELSE HexChars[n + 1]

HexText(nibbles, upper) ==
    <<"#">> \o [i \in DOMAIN nibbles |-> HexChar(nibbles[i], upper)]

Casings ==
    {<<a, b, c>> : a \in {"r", "R"}, b \in {"g", "G"}, c \in {"b", "B"}}

\* 'rgb(r,g,b)' with the given casing of rgb and separator
RgbIntText(casing, nums, sep) ==
    casing \o <<"(">> \o Str(nums[1]) \o sep \o Str(nums[2]) \o sep
           \o Str(nums[3]) \o <<")">>

\* 'rgb(p%,q%,r%)'
RgbPctText(nums, sep) ==
    <<"r","g","b","(">> \o Str(nums[1]) \o <<"%">> \o sep \o Str(nums[2])
        \o <<"%">> \o sep \o Str(nums[3]) \o <<"%",")">>

Form(kind, text, nums) == [kind |-> kind, text |-> text, nums |-> nums]
NoForm == Form("none", <<>>, <<>>)

PairSample == {<<0, 0>>, <<10, 5>>, <<15, 15>>}
ChanSample == {0, 7, 128, 255}
PctSample  == {0, 50, 100}
Seps       == {<<",">>, <<",", " ">>}

Hex6Forms ==
    {Form("hex6", HexText(<<h, l>> \o p \o q, up), <<h, l>> \o p \o q) :
        h \in 0..15, l \in 0..15, p \in PairSample, q \in PairSample,
        up \in BOOLEAN}

Hex3Forms ==
    {Form("hex3", HexText(<<a, b, c>>, up), <<a, b, c>>) :
        a \in 0..15, b \in 0..15, c \in 0..15, up \in BOOLEAN}

\* strings with a leading '#' that are not 6 or 3 hex digits
HashOtherForms ==
    {Form("hashother", t, <<>>) : t \in
        { <<"#">>, <<"#","1">>, <<"#","1","2">>, <<"#","1","2","3","4">>,
          <<"#","1","2","3","4","5">>,
          <<"#","1","2","3","4","5","6","7">>,
          <<"#","g","g","g">>, <<"#","1","2","3","4","z","z">>,
          <<"#","r","e","d">> \o <<"d","i","s","h">> }}

RgbIntForms ==
    {Form("rgbint", RgbIntText(cs, <<r, g, b>>, sep), <<r, g, b>>) :
        cs \in Casings, r \in ChanSample, g \in ChanSample, b \in ChanSample,
        sep \in Seps}

RgbPctForms ==
    {Form("rgbpct", RgbPctText(n, sep), n) :
        n \in {<<p, q, r>> : p \in 0..MaxPct, q \in PctSample,
                             r \in PctSample}
              \cup {<<q, p, r>> : p \in 0..MaxPct, q \in PctSample,
                                  r \in PctSample}
              \cup {<<q, r, p>> : p \in 0..MaxPct, q \in PctSample,
                                  r \in PctSample},
        sep \in Seps}

NamedForms == {Form("named", n, <<>>) : n \in DOMAIN COLORS}

\* strings of none of the grammars
OtherForms ==
    {Form("other", t, <<>>) : t \in
        { <<>>, <<"n","o","t","-","a","-","c","o","l","o","r">>,
          <<"R","E","D">>, <<"f","f","0","0","0","0">>,
          <<" ","#","f","0","0">>, <<"h","s","l","(","0",")">> }}

Forms ==
    Hex6Forms \cup Hex3Forms \cup HashOtherForms \cup RgbIntForms
        \cup RgbPctForms \cup NamedForms \cup OtherForms

---------------------------------------------------------------------------
(* The resolver as a one-call system *)

\* Python's None where an image is expected, and a file that does not exist
NoImage == [mode |-> "None", px |-> <<>>, id |-> 0]
Absent  == [path |-> "absent", name |-> "absent", format |-> "absent",
            img |-> NoImage]

\* no class configured, no instance, no render
NoGenerator ==
    /\ layers = <<>>
    /\ output_filename = None
    /\ image_format = None
    /\ gen = "none"
    /\ ctor_error = "none"
    /\ color_dict = [maplike |-> FALSE, map |-> <<>>]
    /\ colors_for_layers = <<>>
    /\ source_path = None
    /\ output_path = None
    /\ pc = "idle"
    /\ layeridx = 0
    /\ baselayer = NoImage
    /\ warnings = 0
    /\ log = <<>>
    /\ error = "none"
    /\ outfile = Absent
    /\ renders = 0
    /\ outcomes = <<>>

InitColor ==
    /\ form \in Forms
    /\ colorval = form.text
    /\ result = Pending
    /\ NoGenerator

\* one call of _rgbcolor(colorval)
Resolve ==
    /\ result = Pending
    /\ result' = RgbColor(colorval)
    /\ UNCHANGED <<colorval, form, classVars, selfVars, rendVars>>

NextColor == Resolve

SpecColor == InitColor /\ [][NextColor]_vars

Resolved == result.tag # "pending"


---------------------------------------------------------------------------
(* The generator class: layers, colour maps, source images *)

\* a layer entry: a dictionary with its (colour name, filename) pairs, or an
\* object without keys()
Layer(items) == [dict |-> TRUE, items |-> items]
NotAMapping  == [dict |-> FALSE, items |-> <<>>]

LayerEntries ==
    { Layer(<<<<"bg", "solid.png">>>>),
      Layer(<<<<"bg", "rgba.png">>>>),
      Layer(<<<<"fg", "mask.png">>>>),
      Layer(<<<<"fg", "photo.png">>>>),
      Layer(<<<<"fg", "missing.png">>>>),
      Layer(<<<<"bg", "solid.png">>, <<"fg", "mask.png">>>>),
      NotAMapping }

LayerLists == UNION {[1..n -> LayerEntries] : n \in 0..MaxLayers}

\* colour maps handed to the constructor: a mapping, or an object without
\* keys()
ColorDict(map) == [maplike |-> TRUE, map |-> map]

ColHex6  == <<"#","3","3","6","6","9","9">>
ColHex3  == <<"#","F","0","0">>
ColWhite == <<"#","f","f","f">>
ColPct   == RgbPctText(<<50, 0, 100>>, <<",">>)
ColInt   == RgbIntText(<<"r","g","b">>, <<0, 128, 255>>, <<",">>)
ColNamed == <<"r","e","d">>
ColBad   == <<"n","o","t","-","a","-","c","o","l","o","r">>

ColorDicts ==
    { [maplike |-> FALSE, map |-> [n \in {} |-> ColBad]],
      ColorDict([n \in {} |-> ColBad]),
      ColorDict([n \in {"bg"} |-> ColHex6]),
      ColorDict([n \in {"bg", "fg"} |-> IF n = "bg" THEN ColHex6 ELSE ColHex3]),
      ColorDict([n \in {"bg", "fg"} |-> IF n = "bg" THEN ColPct ELSE ColWhite]),
      ColorDict([n \in {"bg", "fg"} |-> IF n = "bg" THEN ColHex3 ELSE ColInt]),
      ColorDict([n \in {"bg", "fg"} |-> IF n = "bg" THEN ColNamed ELSE ColHex3]),
      ColorDict([n \in {"bg", "fg"} |-> IF n = "bg" THEN ColHex6 ELSE ColBad]) }

default_source_path == "source_images"
default_output_path == "generated_images"

\* the (source_path, output_path) arguments of the constructor
CtorArgs == {<<None, None>>, <<"alt_source", "alt_output">>}

Image(mode, px) == [mode |-> mode, px |-> px, id |-> 0]

\* the source directories: what Image.open finds, NoImage when the file is
\* missing
SourceFile(path, filename) ==
    IF path = default_source_path
    THEN CASE filename = "solid.png" -> Image("L", <<100>>)
           [] filename = "rgba.png"  -> Image("RGBA", <<200, 40, 40, 255>>)
           [] filename = "mask.png"  -> Image("LA", <<60, 128>>)
           [] filename = "photo.png" -> Image("RGB", <<10, 200, 90>>)
           [] OTHER -> NoImage
    ELSE CASE filename = "solid.png" -> Image("RGB", <<0, 0, 0>>)
           [] filename = "mask.png"  -> Image("LA", <<255, 0>>)
           [] filename = "photo.png" -> Image("L", <<255>>)
           [] OTHER -> NoImage

---------------------------------------------------------------------------
(* Construction *)

Raised(exc)   == [exc |-> exc, val |-> <<>>]
Returned(val) == [exc |-> "none", val |-> val]

\* a mapping that leaves out the layers whose colour is missing
RECURSIVE MapFromSkipMissing(_, _, _, _)
MapFromSkipMissing(lays, cd, i, acc) ==
    IF i > Len(lays) THEN Returned(acc)
    ELSE LET layer == lays[i] IN
         IF ~layer.dict THEN Raised("TypeError")
         ELSE IF Len(layer.items) # 1 THEN Raised("ValueError")
         ELSE LET required_color == layer.items[1][1] IN
              IF required_color \notin DOMAIN cd.map
              THEN MapFromSkipMissing(lays, cd, i + 1, acc)
              ELSE LET found_color == RgbColor(cd.map[required_color]) IN
                   IF found_color.tag = "raise" THEN Raised(found_color.exc)
                   ELSE MapFromSkipMissing(lays, cd, i + 1,
                            Append(acc, [color |-> found_color,
                                         file  |-> layer.items[1][2]]))

\* the loop of _map_colors_to_layers from layer i on, acc the list so far
RECURSIVE MapFrom(_, _, _, _)
MapFrom(lays, cd, i, acc) ==
    IF i > Len(lays) THEN Returned(acc)
    ELSE LET layer == lays[i] IN
         IF ~layer.dict THEN Raised("TypeError")
         ELSE IF Len(layer.items) # 1 THEN Raised("ValueError")
         ELSE LET required_color == layer.items[1][1] IN
              IF required_color \notin DOMAIN cd.map
              THEN Raised("ValueError")
              ELSE LET found_color == RgbColor(cd.map[required_color]) IN
                   IF found_color.tag = "raise" THEN Raised(found_color.exc)
                   ELSE MapFrom(lays, cd, i + 1,
                            Append(acc, [color |-> found_color,
                                         file  |-> layer.items[1][2]]))

\* ImageGenerator._map_colors_to_layers
MapColorsToLayers(lays, cd) ==
    IF ~cd.maplike THEN Raised("TypeError")
    ELSE MapFrom(lays, cd, 1, <<>>)

\* ImageGenerator.__init__: an exception leaves no instance behind
Construct ==
    /\ gen = "none"
    /\ \E cd \in ColorDicts, args \in CtorArgs :
          LET mapped == MapColorsToLayers(layers, cd) IN
          /\ color_dict' = cd
          /\ IF mapped.exc # "none"
             THEN /\ gen' = "failed"
                  /\ ctor_error' = mapped.exc
                  /\ UNCHANGED <<colors_for_layers, source_path, output_path>>
             ELSE /\ gen' = "alive"
                  /\ ctor_error' = "none"
                  /\ colors_for_layers' = mapped.val
                  /\ source_path' = IF args[1] # None THEN args[1]
                                    ELSE default_source_path
                  /\ output_path' = IF args[2] # None THEN args[2]
                                    ELSE default_output_path
    /\ UNCHANGED <<colorVars, classVars, rendVars>>

---------------------------------------------------------------------------
(* PIL operations on one pixel *)

\* the alpha band picked from img.split(): -1 stands for None
AlphaOf(img) ==
    IF Len(img.px) = 2 THEN img.px[2]
    ELSE IF Len(img.px) = 4 THEN img.px[4]
    ELSE -1

\* ImageOps.grayscale: convert("L")
Grayscale(img) ==
    IF img.mode \in {"L", "LA"} THEN img.px[1]
    ELSE (img.px[1] * 299 + img.px[2] * 587 + img.px[3] * 114) \div 1000

\* ImageOps.colorize(grey, color, white): one entry of the lookup table
ColorizeChannel(grey, black) == black + (grey * (255 - black)) \div 255

\* ImageOps.colorize followed by split(): the three tinted bands; a colour
\* that is no tuple of three numbers makes the arithmetic raise TypeError
Colorize(grey, color) ==
    IF color.elt # "int" \/ Len(color.val) # 3 THEN Raised("TypeError")
    ELSE Returned([i \in 1..3 |-> ColorizeChannel(grey, color.val[i])])

\* Image.merge of the tinted bands, with the alpha band when there is one
Merge(bands_rgb, alpha, id) ==
    IF alpha # -1
    THEN [mode |-> "RGBA", px |-> bands_rgb \o <<alpha>>, id |-> id]
    ELSE [mode |-> "RGB", px |-> bands_rgb, id |-> id]

MulDiv255(a, b) ==
    LET tmp == a * b + 128 IN ((tmp \div 256) + tmp) \div 256

Blend(mask, in1, in2) == MulDiv255(in1, 255 - mask) + MulDiv255(in2, mask)

\* Image.paste(im, (0, 0), mask): the image pasted onto is kept, each of
\* its bands blended with im's through the mask
Paste(base, im, mask) ==
    [base EXCEPT !.px = [i \in DOMAIN base.px |->
                            Blend(mask, base.px[i], im.px[i])]]

---------------------------------------------------------------------------
(* render() and _write_to_file() *)

Outcome(exc, file) == [exc |-> exc, file |-> file]

\* a render whose canvas of the previous call is still there at entry
RenderBeginKeepsCanvas ==
    /\ gen = "alive"
    /\ pc = "idle"
    /\ renders < MaxRenders
    /\ renders' = renders + 1
    /\ pc' = "loop"
    /\ layeridx' = 0
    /\ log' = <<>>
    /\ error' = "none"
    /\ UNCHANGED <<baselayer, warnings, outfile, outcomes>>
    /\ UNCHANGED <<colorVars, classVars, selfVars>>

\* a render that checks the output configuration at entry
RenderBeginEagerCheck ==
    /\ gen = "alive"
    /\ pc = "idle"
    /\ renders < MaxRenders
    /\ renders' = renders + 1
    /\ layeridx' = 0
    /\ baselayer' = NoImage
    /\ log' = <<>>
    /\ IF output_filename = None \/ image_format = None
       THEN /\ pc' = "idle"
            /\ error' = "NotImplementedError"
            /\ outcomes' = Append(outcomes,
                                  Outcome("NotImplementedError", outfile))
       ELSE /\ pc' = "loop"
            /\ error' = "none"
            /\ UNCHANGED outcomes
    /\ UNCHANGED <<warnings, outfile>>
    /\ UNCHANGED <<colorVars, classVars, selfVars>>

\* entry of render(): baselayer = None, the loop starts at index 0
RenderBegin ==
    /\ gen = "alive"
    /\ pc = "idle"
    /\ renders < MaxRenders
    /\ renders' = renders + 1
    /\ pc' = "loop"
    /\ layeridx' = 0
    /\ baselayer' = NoImage
    /\ log' = <<>>
    /\ error' = "none"
    /\ UNCHANGED <<warnings, outfile, outcomes>>
    /\ UNCHANGED <<colorVars, classVars, selfVars>>

\* render() left by an exception raised inside the loop
Abort(exc, event) ==
    /\ pc' = "idle"
    /\ error' = exc
    /\ log' = Append(log, event)
    /\ outcomes' = Append(outcomes, Outcome(exc, outfile))
    /\ UNCHANGED <<layeridx, baselayer, warnings, outfile, renders>>

\* a loop that passes over a layer whose source cannot be opened
OpenFailedSkipsLayer ==
    /\ pc' = "loop"
    /\ layeridx' = layeridx + 1
    /\ log' = Append(log, "open:fail")
    /\ UNCHANGED <<error, outcomes, baselayer, warnings, outfile, renders>>

\* Image.open raises IOError: render() is left at once
OpenFailed == Abort("IOError", "open:fail")

\* a compositor that pastes every later layer, alpha or not
CompositeAlwaysPastes(idx, base, bands_comb, alpha) ==
    IF idx = 0
    THEN [canvas |-> bands_comb, warned |-> 0]
    ELSE [canvas |-> Paste(base, bands_comb, IF alpha = -1 THEN 255 ELSE alpha),
          warned |-> 0]

\* the compositing step of the loop: the new canvas and the calls of warn()
Composite(idx, base, bands_comb, alpha) ==
    IF idx = 0
    THEN [canvas |-> bands_comb, warned |-> 0]
    ELSE IF alpha = -1
         THEN [canvas |-> bands_comb, warned |-> 1]
         ELSE [canvas |-> Paste(base, bands_comb, alpha), warned |-> 0]

\* the image built from one layer: Returned(bands_comb) or the exception
TintedLayer(img, color, id) ==
    LET colorized == Colorize(Grayscale(img), color)
    IN  IF colorized.exc # "none" THEN colorized
        ELSE Returned(Merge(colorized.val, AlphaOf(img), id))

\* one pass of the loop of render()
RenderLayer ==
    /\ pc = "loop"
    /\ layeridx < Len(colors_for_layers)
    /\ LET layer == colors_for_layers[layeridx + 1]
           img   == SourceFile(source_path, layer.file)
       IN  IF img = NoImage
           THEN OpenFailed
           ELSE LET tinted == TintedLayer(img, layer.color, layeridx + 1)
                IN  IF tinted.exc # "none"
                    THEN Abort(tinted.exc, "open")
                    ELSE LET done == Composite(layeridx, baselayer,
                                               tinted.val, AlphaOf(img))
                         IN  /\ baselayer' = done.canvas
                             /\ warnings' = warnings + done.warned
                             /\ log' = log \o <<"open">>
                                    \o (IF done.warned = 1 THEN <<"warn">>
                                        ELSE <<>>)
                                    \o <<"merge">>
                             /\ layeridx' = layeridx + 1
                             /\ UNCHANGED <<pc, error, outfile, renders,
                                            outcomes>>
    /\ UNCHANGED <<colorVars, classVars, selfVars>>

\* what image.save() leaves on disk
SavedFile(img) ==
    [path |-> output_path, name |-> output_filename,
     format |-> image_format, img |-> [img EXCEPT !.id = 0]]

\* ImageGenerator._write_to_file(baselayer)
WriteToFile ==
    IF output_filename = None \/ image_format = None
    THEN /\ error' = "NotImplementedError"
         /\ UNCHANGED <<outfile, log>>
    ELSE IF baselayer = NoImage
    THEN /\ error' = "AttributeError"
         /\ UNCHANGED <<outfile, log>>
    ELSE /\ error' = "none"
         /\ outfile' = SavedFile(baselayer)
         /\ log' = Append(log, "save")

\* the end of render(): the loop is over, the canvas goes to the writer
RenderWrite ==
    /\ pc = "loop"
    /\ layeridx = Len(colors_for_layers)
    /\ WriteToFile
    /\ pc' = "idle"
    /\ outcomes' = Append(outcomes, Outcome(error', outfile'))
    /\ UNCHANGED <<layeridx, baselayer, warnings, renders>>
    /\ UNCHANGED <<colorVars, classVars, selfVars>>

---------------------------------------------------------------------------
(* The generator as a system: a subclass, one instance, renders *)

Init ==
    /\ colorval = <<>>
    /\ form = NoForm
    /\ result = Pending
    /\ layers \in LayerLists
    /\ output_filename \in {None, "out.png"}
    /\ image_format \in {None, "PNG"}
    /\ gen = "none"
    /\ ctor_error = "none"
    /\ color_dict = [maplike |-> FALSE, map |-> <<>>]
    /\ colors_for_layers = <<>>
    /\ source_path = None
    /\ output_path = None
    /\ pc = "idle"
    /\ layeridx = 0
    /\ baselayer = NoImage
    /\ warnings = 0
    /\ log = <<>>
    /\ error = "none"
    /\ outfile = Absent
    /\ renders = 0
    /\ outcomes = <<>>

Next == Construct \/ RenderBegin \/ RenderLayer \/ RenderWrite

Spec == Init /\ [][Next]_vars

---------------------------------------------------------------------------
(* Properties of the colour resolver, checked under SpecColor *)

\* the call returned exactly the tuple of integers t
IsTuple(res, t) == res.tag = "tuple" /\ res.elt = "int" /\ res.val = t

\* C1: for all r, g, b and any casing of the leading rgb, _rgbcolor applied
\* to 'rgb(r,g,b)' returns exactly the tuple of integers (r, g, b).
C1_RgbIntReturnsIntegers ==
    (Resolved /\ form.kind = "rgbint") => IsTuple(result, form.nums)

\* the nearest integer to num/den, halves upward
RoundDiv(num, den) == (2 * num + den) \div (2 * den)

\* C2 as stated: every channel of 'rgb(p1%,p2%,p3%)' is round(p/100 * 255),
\* the nearest integer, not the truncated value.
C2_PctRounded ==
    (Resolved /\ form.kind = "rgbpct") =>
        IsTuple(result, [i \in 1..3 |-> RoundDiv(form.nums[i] * 255, 100)])

\* C2 as amended: every channel of 'rgb(p1%,p2%,p3%)', p a whole number, is
\* p * 255 / 100 with the fraction dropped.
C2_PctTruncated ==
    (Resolved /\ form.kind = "rgbpct") =>
        IsTuple(result, [i \in 1..3 |-> (form.nums[i] * 255) \div 100])

\* rgb(50%,..) has been resolved, to 127 in its first channel
C2_Witness ==
    /\ Resolved
    /\ form.kind = "rgbpct"
    /\ form.nums[1] = 50
    /\ IsTuple(result, <<127, (form.nums[2] * 255) \div 100,
                         (form.nums[3] * 255) \div 100>>)

\* C3: a specification of none of the grammars, in particular one with a
\* leading '#' and a length other than 7 and 4, is rejected with the
\* invalid-colour-format error and yields no tuple.
C3_OthersRejected ==
    (Resolved /\ form.kind \in {"hashother", "other"}) =>
        (result.tag = "raise" /\ result.exc = "ValueError")

\* C4: a name of the colour table resolves to the tuple that the table's
\* value under that name resolves to.
C4_NamedResolves ==
    (Resolved /\ form.kind = "named") =>
        /\ result.tag = "tuple"
        /\ result = RgbColor(COLORS[colorval])

\* C5: '#RRGGBB' gives the three base-16 values of its digit pairs, '#RGB'
\* gives what the form with every digit doubled gives, and every channel
\* lies in 0..255.
C5_HexParsed ==
    Resolved =>
        /\ form.kind = "hex6" =>
              IsTuple(result, [i \in 1..3 |-> 16 * form.nums[2 * i - 1]
                                               + form.nums[2 * i]])
        /\ form.kind = "hex3" =>
              /\ IsTuple(result, [i \in 1..3 |-> 17 * form.nums[i]])
              /\ result = RgbColor(<<"#", colorval[2], colorval[2],
                                    colorval[3], colorval[3],
                                    colorval[4], colorval[4]>>)
        /\ form.kind \in {"hex6", "hex3"} =>
              \A i \in 1..3 : result.val[i] \in 0..255

\* the shorthand '#Fa0'-like form with three different digits was resolved
C5_Witness ==
    /\ Resolved
    /\ form.kind = "hex3"
    /\ form.nums = <<15, 10, 3>>
    /\ IsTuple(result, <<255, 170, 51>>)


---------------------------------------------------------------------------
(* Properties of construction and render(), checked under Spec *)

Count(event) == Cardinality({i \in DOMAIN log : log[i] = event})

\* the output file as the render in progress (or the last one) found it
FileBefore ==
    LET done == IF pc = "idle" THEN Len(outcomes) - 1 ELSE Len(outcomes)
    IN  IF done >= 1 THEN outcomes[done].file ELSE Absent

OutputUnset == output_filename = None \/ image_format = None

\* C6 as stated: with the output filename or format unset, the
\* configuration error is raised before any layer source has been opened.
C6_ConfigErrorEager ==
    error = "NotImplementedError" => Count("open") = 0

\* C6 as amended: with the output filename or format unset, the
\* configuration error is raised by the writer at the end of render(), after
\* every layer has been opened and merged, and no output file is written;
\* construction and the entry of render() do not raise it.
C6_ConfigErrorAtWriter ==
    /\ error = "NotImplementedError" =>
          /\ OutputUnset
          /\ pc = "idle"
          /\ Count("open") = Len(colors_for_layers)
          /\ Count("merge") = Len(colors_for_layers)
          /\ Count("save") = 0
    /\ ctor_error # "NotImplementedError"
    /\ OutputUnset => outfile = Absent
    /\ (OutputUnset /\ pc = "idle" /\ renders > 0
            /\ Count("merge") = Len(colors_for_layers)) =>
          error = "NotImplementedError"

\* the configuration error came after two layers were opened and merged
C6_Witness ==
    /\ error = "NotImplementedError"
    /\ Len(colors_for_layers) >= 2
    /\ Count("open") = Len(colors_for_layers)
    /\ Count("merge") = Len(colors_for_layers)

\* C7: when the source of some layer k cannot be opened, render() is left
\* with that error and writes no output file; the one write comes only
\* after every layer has been loaded and merged.
C7_NoOutputOnMissingSource ==
    /\ \A i \in DOMAIN log :
          log[i] = "save" =>
             /\ i = Len(log)
             /\ Count("open:fail") = 0
             /\ Count("merge") = Len(colors_for_layers)
    /\ Count("open:fail") > 0 =>
          /\ pc = "idle"
          /\ error = "IOError"
          /\ Count("save") = 0
          /\ outfile = FileBefore
          /\ log[Len(log)] = "open:fail"

\* the source of a layer after the first was missing: render() was left
\* with one layer merged and nothing written
C7_Witness ==
    /\ error = "IOError"
    /\ pc = "idle"
    /\ layeridx >= 1
    /\ Count("merge") = layeridx
    /\ Count("open:fail") = 1
    /\ outfile = Absent

WellFormed(layer) == layer.dict /\ Len(layer.items) = 1

\* C8: a colour map that is not map-like, a layer entry without exactly one
\* pair, or a colour name missing from the map makes construction fail,
\* before any file I/O and with no instance to render; an instance holds a
\* resolved entry for every layer.
C8_ConstructionValidates ==
    /\ gen = "alive" =>
          /\ color_dict.maplike
          /\ Len(colors_for_layers) = Len(layers)
          /\ \A i \in DOMAIN layers :
                /\ WellFormed(layers[i])
                /\ layers[i].items[1][1] \in DOMAIN color_dict.map
                /\ colors_for_layers[i].file = layers[i].items[1][2]
                /\ colors_for_layers[i].color.tag = "tuple"
    /\ gen # "alive" =>
          /\ colors_for_layers = <<>>
          /\ renders = 0
          /\ pc = "idle"
          /\ log = <<>>
          /\ outfile = Absent
    /\ gen = "failed" <=> ctor_error # "none"

\* construction failed on the second layer's missing colour name, after the
\* first layer had been resolved
C8_Witness ==
    /\ gen = "failed"
    /\ ctor_error = "ValueError"
    /\ color_dict.maplike
    /\ Len(layers) >= 2
    /\ WellFormed(layers[1])
    /\ layers[1].items[1][1] \in DOMAIN color_dict.map
    /\ WellFormed(layers[2])
    /\ layers[2].items[1][1] \notin DOMAIN color_dict.map

\* C9: layer 0 becomes the canvas without a warning; a later layer without
\* alpha warns and becomes the canvas, exactly; a later layer with alpha is
\* pasted through its alpha onto the canvas object, which is kept.
C9_Compositing ==
    [][ (pc = "loop" /\ pc' = "loop" /\ layeridx' = layeridx + 1) =>
          LET layer == colors_for_layers[layeridx + 1]
              img   == SourceFile(source_path, layer.file)
              alpha == AlphaOf(img)
              tint  == [i \in 1..3 |->
                          ColorizeChannel(Grayscale(img), layer.color.val[i])]
          IN  /\ layeridx = 0 =>
                    /\ warnings' = warnings
                    /\ baselayer'.id = layeridx + 1
                    /\ baselayer'.px = IF alpha = -1 THEN tint
                                       ELSE tint \o <<alpha>>
              /\ (layeridx > 0 /\ alpha = -1) =>
                    /\ warnings' = warnings + 1
                    /\ baselayer'.id = layeridx + 1
                    /\ baselayer'.mode = "RGB"
                    /\ baselayer'.px = tint
              /\ (layeridx > 0 /\ alpha # -1) =>
                    /\ warnings' = warnings
                    /\ baselayer'.id = baselayer.id
                    /\ baselayer'.mode = baselayer.mode
                    /\ \A i \in DOMAIN baselayer.px :
                          baselayer'.px[i] =
                             Blend(alpha, baselayer.px[i], (tint \o <<alpha>>)[i])
    ]_vars

\* a second layer without alpha has replaced a first layer and warned, then
\* a third layer with alpha was pasted onto that canvas
C9_Witness ==
    /\ pc = "loop"
    /\ layeridx = 3
    /\ warnings = 1
    /\ baselayer.id = 2
    /\ baselayer.mode = "RGB"
    /\ Count("warn") = 1

\* C10: every render() of an instance has the same outcome (the same
\* exception, the same output file), starts from an empty canvas, and
\* leaves colors_for_layers, source_path and output_path as they were.
C10_RenderIdempotent ==
    [][ /\ \A i, j \in DOMAIN outcomes' : outcomes'[i] = outcomes'[j]
        /\ (pc = "idle" /\ pc' = "loop") =>
              (baselayer' = NoImage /\ layeridx' = 0)
        /\ gen = "alive" =>
              UNCHANGED <<colors_for_layers, source_path, output_path>>
    ]_vars

\* two renders of two layers have each written the output file
C10_Witness ==
    /\ Len(outcomes) = 2
    /\ outcomes[1].exc = "none"
    /\ outcomes[2].exc = "none"
    /\ Len(colors_for_layers) >= 2
    /\ outfile # Absent
    /\ pc = "idle"

=============================================================================
